---- MODULE Spec2Model ----
(***************************************************************************)
(* Verification model of the PixBay client components ProjectInfo and      *)
(* SprintFormModal (apps/client/src/components) and of the relational      *)
(* schema (Prisma models) that the server persists.                        *)
(*                                                                         *)
(* Three specifications share this module:                                 *)
(*   Spec        the ProjectInfo component and its project fetches         *)
(*   SprintSpec  the SprintFormModal component and its sprint-creation POST*)
(*   SchemaSpec  row insertions and deletions on the schema                *)
(***************************************************************************)
EXTENDS Integers, Sequences, FiniteSets, TLC

VARIABLES
    \* ---- ProjectInfo ----
    projectId,      \* prop projectId?: string | null
    project,        \* useState<ProjectInfo | null>(null)
    loading,        \* useState<boolean>(true)
    error,          \* useState<string | null>(null)
    mounted,        \* the component has rendered and run its first effect
    fetches,        \* invocations of fetchProjectInfo that are awaiting
    nextFetch,      \* number of fetchProjectInfo invocations that awaited so far
    piLast,         \* history: the last ProjectInfo step that ran
    \* ---- SprintFormModal ----
    isOpen,             \* prop isOpen
    workspaceName,      \* prop workspaceName
    hasOnSprintCreated, \* whether prop onSprintCreated is provided
    name,               \* useState("")
    goal,               \* useState("")
    startDate,          \* useState("")
    endDate,            \* useState("")
    selectedProjectId,  \* useState("")
    projects,           \* useState<Project[]>([]), as the list of project ids
    isLoading,          \* useState(false)
    sprintError,        \* SprintFormModal's useState("") named error
    projectsError,      \* useState("")
    submits,            \* the handleSubmit invocations that are awaiting
    projectFetches,     \* number of fetchProjects invocations that are awaiting
    calls,              \* the calls of the props onClose and onSprintCreated, in order
    counts,             \* history: opens, accepted submits, POSTs issued, ...
    sfLast,             \* history: the last SprintFormModal step that ran
    \* ---- relational schema ----
    db,                 \* the tables, one field per model of the schema
    dbLast              \* history: the last statement that ran on the tables

piVars == <<projectId, project, loading, error, mounted, fetches, nextFetch, piLast>>

sfVars == <<isOpen, workspaceName, hasOnSprintCreated, name, goal, startDate,
            endDate, selectedProjectId, projects, isLoading, sprintError,
            projectsError, submits, projectFetches, calls, counts, sfLast>>

dbVars == <<db, dbLast>>

vars == <<piVars, sfVars, dbVars>>

\* the components and the tables share no state: a step of one leaves the
\* others alone
PiOnly == UNCHANGED <<sfVars, dbVars>>
SfOnly == UNCHANGED <<piVars, dbVars>>
DbOnly == UNCHANGED <<piVars, sfVars>>

(***************************************************************************)
(* JavaScript values.  A value carries its type so that the truthiness     *)
(* test of `||` and `!` is computed as JavaScript computes it.             *)
(***************************************************************************)
Undefined == [t |-> "undefined"]
Null == [t |-> "null"]
Str(s) == [t |-> "string", s |-> s]
Num(n) == [t |-> "number", n |-> n]
Obj(o) == [t |-> "object", o |-> o]

Truthy(v) ==
    CASE v.t = "undefined" -> FALSE
      [] v.t = "null" -> FALSE
      [] v.t = "string" -> v.s # ""
      [] v.t = "number" -> v.n # 0
      [] v.t = "object" -> TRUE

\* a || b
Or(a, b) == IF Truthy(a) THEN a ELSE b

\* o.k of an object whose property k may be absent
Get(o, k) == IF k \in DOMAIN o THEN o[k] ELSE Undefined

(***************************************************************************)
(* Bounds of the ProjectInfo model.                                        *)
(***************************************************************************)
MaxFetches == 3

PropIds == {Undefined, Null, Str(""), Str("p1"), Str("p2")}

\* Bodies of a 200 response, of the declared shape ProjectInfo; the server
\* may leave out or null the fields the component defaults.
StatusValues == {Undefined, Null, Str(""), Str("planning")}
ProgressValues == {Undefined, Null, Num(0), Num(40)}
DeadlineValues == {Undefined, Str("2025-06-30")}

MkData(st, pr, dl) ==
    LET base == [k \in {"name", "description"} |->
                    IF k = "name" THEN Str("Apollo") ELSE Str("")]
        opt == {<<"status", st>>, <<"progress", pr>>, <<"deadline", dl>>}
        present == {p \in opt : p[2] # Undefined}
        keys == {"name", "description"} \cup {p[1] : p \in present}
    IN [k \in keys |->
            IF k \in DOMAIN base THEN base[k]
            ELSE (CHOOSE p \in present : p[1] = k)[2]]

ResponseData ==
    {MkData(st, pr, dl) : st \in StatusValues, pr \in ProgressValues,
                          dl \in DeadlineValues}

\* Error statuses (axios rejects on a status outside 2xx) and status texts.
ErrorStatuses == {404, 500}
StatusTexts == {"", "Internal Server Error"}

(***************************************************************************)
(* ProjectInfo: pure parts of fetchProjectInfo and of the render.          *)
(***************************************************************************)
\* mutation of ProjectData: the spread without the two defaults
ProjectDataNoDefaults(data) == data

\* { ...response.data, status: data.status || "active", progress: data.progress || 0 }
ProjectData(data) ==
    [k \in DOMAIN data \cup {"status", "progress"} |->
        IF k = "status" THEN Or(Get(data, "status"), Str("active"))
        ELSE IF k = "progress" THEN Or(Get(data, "progress"), Num(0))
        ELSE data[k]]

\* mutation of FormatStatus: the status text is dropped
FormatStatusNoText(status, statusText) ==
    "Error: " \o ToString(status)

\* `Error: ${err.response.status} - ${err.response.statusText}`
FormatStatus(status, statusText) ==
    "Error: " \o ToString(status) \o " - " \o statusText

\* mutation of ErrorMessage: 404 is not told apart from the other statuses
ErrorMessageNo404(resp) ==
    IF resp # Undefined
    THEN FormatStatus(resp.status, resp.statusText)
    ELSE "Failed to load project information"

\* the catch block's errorMessage; resp is Undefined when the rejection
\* carries no response (network failure, rejected getToken)
ErrorMessage(resp) ==
    IF resp # Undefined
    THEN IF resp.status = 404
         THEN "Project not found"
         ELSE FormatStatus(resp.status, resp.statusText)
    ELSE "Failed to load project information"

\* the text the component renders
ShownText ==
    IF loading THEN "Loading project information..."
    ELSE IF Truthy(error) \/ ~Truthy(project)
         THEN Or(error, Str("Project not found")).s
         ELSE "<project card>"

(***************************************************************************)
(* ProjectInfo: steps.                                                     *)
(***************************************************************************)
PiEvent(op, pid, resp, data) ==
    [op |-> op, pid |-> pid, resp |-> resp, data |-> data]

\* a guard that lets the empty string through: projectId == null
NoProjectNullish(pid) ==
    pid \in {Undefined, Null}

\* the guard of fetchProjectInfo: !projectId
NoProject(pid) ==
    ~Truthy(pid)

\* fetchProjectInfo up to its first await
FetchProjectInfo(pid) ==
    IF NoProject(pid)
    THEN /\ error' = Str("Select a project or create a new one")
         /\ loading' = FALSE
         /\ piLast' = PiEvent("noProject", pid, Undefined, Undefined)
         /\ UNCHANGED <<project, fetches, nextFetch>>
    ELSE /\ nextFetch < MaxFetches
         /\ loading' = TRUE
         /\ nextFetch' = nextFetch + 1
         /\ fetches' = fetches \cup {[id |-> nextFetch + 1, pid |-> pid, pc |-> "token"]}
         /\ piLast' = PiEvent("start", pid, Undefined, Undefined)
         /\ UNCHANGED <<project, error>>

\* first render: the effect runs fetchProjectInfo
Mount ==
    /\ ~mounted
    /\ mounted' = TRUE
    /\ FetchProjectInfo(projectId)
    /\ UNCHANGED projectId
    /\ PiOnly

\* the parent passes another projectId: fetchProjectInfo is re-created and
\* the effect runs it
ProjectIdChanged ==
    /\ mounted
    /\ \E p \in PropIds :
        /\ p # projectId
        /\ projectId' = p
        /\ FetchProjectInfo(p)
    /\ UNCHANGED mounted
    /\ PiOnly

\* getToken changes identity: fetchProjectInfo is re-created and the effect
\* runs it for the same projectId
GetTokenChanged ==
    /\ mounted
    /\ FetchProjectInfo(projectId)
    /\ UNCHANGED <<mounted, projectId>>
    /\ PiOnly

\* await getToken() resolves: axios.get is issued
TokenResolved ==
    \E f \in fetches :
        /\ f.pc = "token"
        /\ fetches' = (fetches \ {f}) \cup {[f EXCEPT !.pc = "get"]}
        /\ piLast' = PiEvent("request", f.pid, Undefined, Undefined)
        /\ UNCHANGED <<projectId, project, loading, error, mounted, nextFetch>>
        /\ PiOnly

\* catch and finally of fetchProjectInfo
Catch(f, op, resp) ==
    /\ error' = Str(ErrorMessage(resp))
    /\ project' = Null
    /\ loading' = FALSE
    /\ fetches' = fetches \ {f}
    /\ piLast' = PiEvent(op, f.pid, resp, Undefined)
    /\ UNCHANGED <<projectId, mounted, nextFetch>>
    /\ PiOnly

\* await getToken() rejects
TokenRejected ==
    \E f \in fetches :
        /\ f.pc = "token"
        /\ Catch(f, "tokenRejected", Undefined)

\* axios.get resolves with a 2xx response
GetSucceeded ==
    \E f \in fetches, data \in ResponseData :
        /\ f.pc = "get"
        /\ project' = Obj(ProjectData(data))
        /\ error' = Null
        /\ loading' = FALSE
        /\ fetches' = fetches \ {f}
        /\ piLast' = PiEvent("succeeded", f.pid, Undefined, Obj(data))
        /\ UNCHANGED <<projectId, mounted, nextFetch>>
        /\ PiOnly

\* axios.get rejects with a response of an error status
GetFailedStatus ==
    \E f \in fetches, st \in ErrorStatuses, txt \in StatusTexts :
        /\ f.pc = "get"
        /\ Catch(f, "failedStatus", [status |-> st, statusText |-> txt])

\* axios.get rejects without a response (network error)
GetFailedNetwork ==
    \E f \in fetches :
        /\ f.pc = "get"
        /\ Catch(f, "failedNetwork", Undefined)

\* the state of ProjectInfo after construction
PiInit ==
    /\ projectId \in PropIds
    /\ project = Null
    /\ loading = TRUE
    /\ error = Null
    /\ mounted = FALSE
    /\ fetches = {}
    /\ nextFetch = 0
    /\ piLast = PiEvent("construct", Undefined, Undefined, Undefined)

(***************************************************************************)
(* Bounds of the SprintFormModal model.                                    *)
(***************************************************************************)
MaxOpens == 1
MaxSubmits == 2
MaxDismiss == 1

WorkspaceNames == {"", "acme"}
NameValues == {"", "Sprint 1"}
GoalValues == {"", "ship it"}
ProjectLists == {<<>>, <<"p1">>}

\* the days the calendar can hand to onSelect; Undefined when a day is unselected
CalendarDates == {Undefined, [t |-> "date", y |-> 2025, m |-> 3, d |-> 9]}

\* rejections of the POST: without response, with a response without data,
\* with data without error, with an empty and with a non-empty error text
NoResponse == <<>>
WithResponse(r) == [k \in {"response"} |-> Obj(r)]
WithData(dt) == WithResponse([k \in {"data"} |-> Obj(dt)])
WithError(txt) == WithData([k \in {"error"} |-> Str(txt)])
PostErrors ==
    {NoResponse, WithResponse(<<>>), WithData(<<>>), WithError(""),
     WithError("Sprint name already exists")}

(***************************************************************************)
(* SprintFormModal: pure parts.                                            *)
(***************************************************************************)
\* v?.k
OptGet(v, k) == IF v.t = "object" THEN Get(v.o, k) ELSE Undefined

Pad2(n) == IF n < 10 THEN "0" \o ToString(n) ELSE ToString(n)

\* format(date, "yyyy-MM-dd")
FormatDate(date) ==
    ToString(date.y) \o "-" \o Pad2(date.m) \o "-" \o Pad2(date.d)

\* mutation of SubmitErrorText: the server's text is ignored
SubmitErrorTextGeneric(err) == "Failed to create sprint"

\* errorResponse?.data?.error || "Failed to create sprint"
SubmitErrorText(err) ==
    LET errorResponse == Get(err, "response")
    IN Or(OptGet(OptGet(errorResponse, "data"), "error"),
          Str("Failed to create sprint")).s

\* the body of the POST
SprintBody ==
    [name |-> Str(name), goal |-> Str(goal),
     startDate |-> Or(Str(startDate), Null),
     endDate |-> Or(Str(endDate), Null),
     projectId |-> Str(selectedProjectId)]

Fields == <<name, goal, startDate, endDate, selectedProjectId>>

SfEvent(op, made, before, err) ==
    [op |-> op, calls |-> made, fields |-> before, err |-> err]

OnCloseCall(by) == [fn |-> "onClose", by |-> by]
OnSprintCreatedCall == [fn |-> "onSprintCreated", by |-> "submit"]

(***************************************************************************)
(* SprintFormModal: steps.                                                 *)
(***************************************************************************)
\* the parent opens the modal: the reset effect clears the form and, with a
\* workspace name, the fetch effect starts fetchProjects
ParentOpens ==
    /\ ~isOpen
    /\ counts.opens < MaxOpens
    /\ isOpen' = TRUE
    /\ counts' = [counts EXCEPT !.opens = @ + 1]
    /\ name' = ""
    /\ goal' = ""
    /\ startDate' = ""
    /\ endDate' = ""
    /\ selectedProjectId' = ""
    /\ sprintError' = ""
    /\ projectsError' = ""
    /\ projectFetches' = IF workspaceName # "" THEN projectFetches + 1
                         ELSE projectFetches
    /\ sfLast' = SfEvent("other", <<>>, <<>>, <<>>)
    /\ UNCHANGED <<workspaceName, hasOnSprintCreated, projects, isLoading,
                   submits, calls>>
    /\ SfOnly

\* the parent closes the modal
ParentCloses ==
    /\ isOpen
    /\ isOpen' = FALSE
    /\ sfLast' = SfEvent("other", <<>>, <<>>, <<>>)
    /\ UNCHANGED <<workspaceName, hasOnSprintCreated, name, goal, startDate,
                   endDate, selectedProjectId, projects, isLoading, sprintError,
                   projectsError, submits, projectFetches, calls, counts>>
    /\ SfOnly

\* fetchProjects: setProjects(response.data)
FetchProjectsSucceeded ==
    /\ projectFetches > 0
    /\ projectFetches' = projectFetches - 1
    /\ \E list \in ProjectLists : projects' = list
    /\ sfLast' = SfEvent("other", <<>>, <<>>, <<>>)
    /\ UNCHANGED <<isOpen, workspaceName, hasOnSprintCreated, name, goal,
                   startDate, endDate, selectedProjectId, isLoading,
                   sprintError, projectsError, submits, calls, counts>>
    /\ SfOnly

\* fetchProjects: getToken or axios.get rejects
FetchProjectsFailed ==
    /\ projectFetches > 0
    /\ projectFetches' = projectFetches - 1
    /\ projectsError' = "Failed to fetch projects"
    /\ sfLast' = SfEvent("other", <<>>, <<>>, <<>>)
    /\ UNCHANGED <<isOpen, workspaceName, hasOnSprintCreated, name, goal,
                   startDate, endDate, selectedProjectId, projects, isLoading,
                   sprintError, submits, calls, counts>>
    /\ SfOnly

\* the backdrop or the X button is clicked: onClick={onClose}
Dismiss ==
    /\ isOpen
    /\ counts.dismissed < MaxDismiss
    /\ counts' = [counts EXCEPT !.dismissed = @ + 1]
    /\ calls' = Append(calls, OnCloseCall("click"))
    /\ sfLast' = SfEvent("dismiss", <<OnCloseCall("click")>>, <<>>, <<>>)
    /\ UNCHANGED <<isOpen, workspaceName, hasOnSprintCreated, name, goal,
                   startDate, endDate, selectedProjectId, projects, isLoading,
                   sprintError, projectsError, submits, projectFetches>>
    /\ SfOnly

\* the inputs' onChange handlers and the calendars' onSelect handlers
EditFrame ==
    /\ sfLast' = SfEvent("other", <<>>, <<>>, <<>>)
    /\ UNCHANGED <<isOpen, workspaceName, hasOnSprintCreated, projects,
                   isLoading, sprintError, projectsError, submits,
                   projectFetches, calls, counts>>
    /\ SfOnly

SetName ==
    /\ isOpen
    /\ \E v \in NameValues : v # name /\ name' = v
    /\ UNCHANGED <<goal, startDate, endDate, selectedProjectId>>
    /\ EditFrame

SetGoal ==
    /\ isOpen
    /\ \E v \in GoalValues : v # goal /\ goal' = v
    /\ UNCHANGED <<name, startDate, endDate, selectedProjectId>>
    /\ EditFrame

SetSelectedProjectId ==
    /\ isOpen
    /\ \E v \in {""} \cup {projects[i] : i \in DOMAIN projects} :
        v # selectedProjectId /\ selectedProjectId' = v
    /\ UNCHANGED <<name, goal, startDate, endDate>>
    /\ EditFrame

HandleStartDateChange ==
    /\ isOpen
    /\ \E date \in CalendarDates :
        startDate' = IF date # Undefined THEN FormatDate(date) ELSE startDate
    /\ UNCHANGED <<name, goal, endDate, selectedProjectId>>
    /\ EditFrame

HandleEndDateChange ==
    /\ isOpen
    /\ \E date \in CalendarDates :
        endDate' = IF date # Undefined THEN FormatDate(date) ELSE endDate
    /\ UNCHANGED <<name, goal, startDate, selectedProjectId>>
    /\ EditFrame

\* mutation of SubmitEnabled: the button is not disabled while loading
SubmitEnabledAlways == isOpen

\* the form is rendered and its submit button is not disabled
SubmitEnabled == isOpen /\ ~isLoading

\* mutation of Validation: the name is checked before the project
ValidationNameFirst ==
    IF name = "" THEN "Sprint name is required"
    ELSE IF selectedProjectId = "" THEN "Please select a project"
    ELSE ""

\* the two checks of handleSubmit; "" when the submit is accepted
Validation ==
    IF selectedProjectId = "" THEN "Please select a project"
    ELSE IF name = "" THEN "Sprint name is required"
    ELSE ""

\* handleSubmit up to its first await
HandleSubmit ==
    /\ SubmitEnabled
    /\ IF Validation # ""
       THEN /\ sprintError' = Validation
            /\ sfLast' = SfEvent("rejected", <<>>, Fields, <<>>)
            /\ UNCHANGED <<isLoading, submits, counts>>
       ELSE /\ counts.accepted < MaxSubmits
            /\ isLoading' = TRUE
            /\ sprintError' = ""
            /\ submits' = submits \cup {[id |-> counts.accepted + 1, pc |-> "token",
                                           body |-> SprintBody]}
            /\ counts' = [counts EXCEPT !.accepted = @ + 1]
            /\ sfLast' = SfEvent("accepted", <<>>, Fields, <<>>)
    /\ UNCHANGED <<isOpen, workspaceName, hasOnSprintCreated, name, goal,
                   startDate, endDate, selectedProjectId, projects,
                   projectsError, projectFetches, calls>>
    /\ SfOnly

\* await getToken() resolves: axios.post is issued
SubmitTokenResolved ==
    /\ \E sb \in submits :
        /\ sb.pc = "token"
        /\ submits' = (submits \ {sb}) \cup {[sb EXCEPT !.pc = "post"]}
    /\ counts' = [counts EXCEPT !.posts = @ + 1]
    /\ sfLast' = SfEvent("post", <<>>, Fields, <<>>)
    /\ UNCHANGED <<isOpen, workspaceName, hasOnSprintCreated, name, goal,
                   startDate, endDate, selectedProjectId, projects, isLoading,
                   sprintError, projectsError, projectFetches, calls>>
    /\ SfOnly

\* a finally block that leaves isLoading as it was
FinallyKeepsLoading ==
    isLoading' = isLoading

\* finally of handleSubmit: setIsLoading(false)
Finally ==
    isLoading' = FALSE

\* catch and finally of handleSubmit
SubmitCatch(sb, op, err) ==
    /\ sprintError' = SubmitErrorText(err)
    /\ Finally
    /\ submits' = submits \ {sb}
    /\ sfLast' = SfEvent(op, <<>>, Fields, err)
    /\ UNCHANGED <<isOpen, workspaceName, hasOnSprintCreated, name, goal,
                   startDate, endDate, selectedProjectId, projects,
                   projectsError, projectFetches, calls>>
    /\ SfOnly

\* await getToken() rejects
SubmitTokenRejected ==
    \E sb \in submits :
        /\ sb.pc = "token"
        /\ counts' = [counts EXCEPT !.tokenRejected = @ + 1]
        /\ SubmitCatch(sb, "tokenRejected", NoResponse)

\* await axios.post rejects
PostFailed ==
    \E sb \in submits, err \in PostErrors :
        /\ sb.pc = "post"
        /\ counts' = [counts EXCEPT !.failed = @ + 1]
        /\ SubmitCatch(sb, "postFailed", err)

\* mutation of SuccessCalls: onSprintCreated is called before onClose
SuccessCallsReversed ==
    IF hasOnSprintCreated
    THEN <<OnSprintCreatedCall, OnCloseCall("submit")>>
    ELSE <<OnCloseCall("submit")>>

\* the callbacks handleSubmit calls after the POST
SuccessCalls ==
    IF hasOnSprintCreated
    THEN <<OnCloseCall("submit"), OnSprintCreatedCall>>
    ELSE <<OnCloseCall("submit")>>

\* await axios.post resolves: onClose(), onSprintCreated(), finally
PostSucceeded ==
    /\ \E sb \in submits :
        /\ sb.pc = "post"
        /\ submits' = submits \ {sb}
    /\ counts' = [counts EXCEPT !.succeeded = @ + 1]
    /\ calls' = calls \o SuccessCalls
    /\ Finally
    /\ sfLast' = SfEvent("postSucceeded", SuccessCalls, Fields, <<>>)
    /\ UNCHANGED <<isOpen, workspaceName, hasOnSprintCreated, name, goal,
                   startDate, endDate, selectedProjectId, projects,
                   sprintError, projectsError, projectFetches>>
    /\ SfOnly

\* the state of SprintFormModal after construction
SfInit ==
    /\ isOpen = FALSE
    /\ workspaceName \in WorkspaceNames
    /\ hasOnSprintCreated \in BOOLEAN
    /\ name = ""
    /\ goal = ""
    /\ startDate = ""
    /\ endDate = ""
    /\ selectedProjectId = ""
    /\ projects = <<>>
    /\ isLoading = FALSE
    /\ sprintError = ""
    /\ projectsError = ""
    /\ submits = {}
    /\ projectFetches = 0
    /\ calls = <<>>
    /\ counts = [opens |-> 0, dismissed |-> 0, accepted |-> 0,
                 tokenRejected |-> 0, posts |-> 0, failed |-> 0,
                 succeeded |-> 0]
    /\ sfLast = SfEvent("construct", <<>>, <<>>, <<>>)

(***************************************************************************)
(* The relational schema.  A table is a function from the ids of its rows  *)
(* to the rows; User and Workspace rows are modelled by their id alone.    *)
(* Of each model the id, the foreign keys and the columns of its unique    *)
(* constraints are modelled.  Activity, Notification, Room and ChatMessage *)
(* stay empty and Task.assigneeId stays null.                              *)
(***************************************************************************)
MaxRows == 7

\* the ids @default(cuid()) can produce, by table
UserIds == <<"u1">>
WorkspaceIds == <<"w1", "w2">>
MemberIds == <<"wm1", "wm2">>
ProjectIds == <<"p1", "p2">>
TaskIds == <<"t1", "t2">>
TagIds == <<"tg1", "tg2">>
TagNames == {"bug"}
SprintIds == <<"s1">>
MilestoneIds == <<"m1", "m2">>
DependencyIds == <<"d1", "d2">>

NullId == "NULL"

Range(seq) == {seq[i] : i \in DOMAIN seq}

EmptyDb ==
    [User |-> {}, Workspace |-> {}, WorkspaceMember |-> <<>>,
     Project |-> <<>>, Task |-> <<>>, TaskTag |-> <<>>, Sprint |-> <<>>,
     Milestone |-> <<>>, MilestoneDependency |-> <<>>]

\* the ids of the rows of a table
Ids(d, table) ==
    IF table \in {"User", "Workspace"} THEN d[table] ELSE DOMAIN d[table]

RowCount(d) ==
    Cardinality(d.User) + Cardinality(d.Workspace)
    + Cardinality(DOMAIN d.WorkspaceMember) + Cardinality(DOMAIN d.Project)
    + Cardinality(DOMAIN d.Task) + Cardinality(DOMAIN d.TaskTag)
    + Cardinality(DOMAIN d.Sprint) + Cardinality(DOMAIN d.Milestone)
    + Cardinality(DOMAIN d.MilestoneDependency)

HasFreshId(ids, used) == \E i \in DOMAIN ids : ids[i] \notin used

\* @default(cuid()): an id no row of the table has
FreshId(ids, used) ==
    ids[CHOOSE i \in DOMAIN ids :
            /\ ids[i] \notin used
            /\ \A j \in 1..(i - 1) : ids[j] \in used]

Put(t, id, row) == [i \in DOMAIN t \cup {id} |-> IF i = id THEN row ELSE t[i]]
Without(t, gone) == [i \in DOMAIN t \ gone |-> t[i]]

DbEvent(op, table, id, row, ok, before) ==
    [op |-> op, table |-> table, id |-> id, row |-> row, ok |-> ok,
     before |-> before]

\* mutation of MemberPairTaken: the unique constraint is missing
MemberPairTakenNever(workspaceId, userId) == FALSE

\* WorkspaceMember @@unique([workspaceId, userId])
MemberPairTaken(workspaceId, userId) ==
    \E i \in DOMAIN db.WorkspaceMember :
        /\ db.WorkspaceMember[i].workspaceId = workspaceId
        /\ db.WorkspaceMember[i].userId = userId

\* TaskTag @@unique([taskId, name])
TagPairTaken(taskId, tagName) ==
    \E i \in DOMAIN db.TaskTag :
        /\ db.TaskTag[i].taskId = taskId
        /\ db.TaskTag[i].name = tagName

\* MilestoneDependency @@unique([milestoneId, dependsOnId])
DependencyPairTaken(milestoneId, dependsOnId) ==
    \E i \in DOMAIN db.MilestoneDependency :
        /\ db.MilestoneDependency[i].milestoneId = milestoneId
        /\ db.MilestoneDependency[i].dependsOnId = dependsOnId

\* mutation of DependencyAccepted: a milestone may not depend on itself
DependencyAcceptedNoSelf(milestoneId, dependsOnId) ==
    /\ milestoneId \in DOMAIN db.Milestone
    /\ dependsOnId \in DOMAIN db.Milestone
    /\ milestoneId # dependsOnId
    /\ ~DependencyPairTaken(milestoneId, dependsOnId)

\* the constraints of MilestoneDependency: its two relations and its unique pair
DependencyAccepted(milestoneId, dependsOnId) ==
    /\ milestoneId \in DOMAIN db.Milestone
    /\ dependsOnId \in DOMAIN db.Milestone
    /\ ~DependencyPairTaken(milestoneId, dependsOnId)

\* INSERT of one row: it is stored when its constraints hold and there is
\* room, and rejected with the tables unchanged otherwise
Insert(table, ids, row, accepted) ==
    IF accepted
    THEN /\ HasFreshId(ids, Ids(db, table))
         /\ RowCount(db) < MaxRows
         /\ LET id == FreshId(ids, Ids(db, table))
            IN /\ db' = [db EXCEPT ![table] =
                            IF table \in {"User", "Workspace"}
                            THEN @ \cup {id}
                            ELSE Put(@, id, row)]
               /\ dbLast' = DbEvent("insert", table, id, row, TRUE, db)
    ELSE /\ db' = db
         /\ dbLast' = DbEvent("insert", table, "", row, FALSE, db)

InsertUser ==
    /\ Insert("User", UserIds, <<>>, TRUE)
    /\ DbOnly

InsertWorkspace ==
    /\ Insert("Workspace", WorkspaceIds, <<>>, TRUE)
    /\ DbOnly

InsertWorkspaceMember ==
    /\ \E w \in Range(WorkspaceIds), u \in Range(UserIds) :
           Insert("WorkspaceMember", MemberIds,
                  [workspaceId |-> w, userId |-> u],
                  /\ w \in db.Workspace
                  /\ u \in db.User
                  /\ ~MemberPairTaken(w, u))
    /\ DbOnly

InsertProject ==
    /\ \E w \in Range(WorkspaceIds) :
           Insert("Project", ProjectIds, [workspaceId |-> w], w \in db.Workspace)
    /\ DbOnly

InsertTask ==
    /\ \E p \in Range(ProjectIds), s \in Range(SprintIds) \cup {NullId},
          u \in Range(UserIds) :
           Insert("Task", TaskIds,
                  [projectId |-> p, sprintId |-> s, creatorId |-> u],
                  /\ p \in DOMAIN db.Project
                  /\ s = NullId \/ s \in DOMAIN db.Sprint
                  /\ u \in db.User)
    /\ DbOnly

InsertTaskTag ==
    /\ \E t \in Range(TaskIds), n \in TagNames :
           Insert("TaskTag", TagIds, [taskId |-> t, name |-> n],
                  /\ t \in DOMAIN db.Task
                  /\ ~TagPairTaken(t, n))
    /\ DbOnly

InsertSprint ==
    /\ \E p \in Range(ProjectIds), u \in Range(UserIds) :
           Insert("Sprint", SprintIds, [projectId |-> p, ownerId |-> u],
                  /\ p \in DOMAIN db.Project
                  /\ u \in db.User)
    /\ DbOnly

InsertMilestone ==
    /\ \E p \in Range(ProjectIds), u \in Range(UserIds) :
           Insert("Milestone", MilestoneIds, [projectId |-> p, ownerId |-> u],
                  /\ p \in DOMAIN db.Project
                  /\ u \in db.User)
    /\ DbOnly

InsertMilestoneDependency ==
    /\ \E m \in Range(MilestoneIds), d \in Range(MilestoneIds) :
           Insert("MilestoneDependency", DependencyIds,
                  [milestoneId |-> m, dependsOnId |-> d],
                  DependencyAccepted(m, d))
    /\ DbOnly

\* the rows a DELETE of the rows `gone` of `table` removes: the referential
\* actions onDelete: Cascade, followed from table to table
Removed(d, table, gone) ==
    LET of(t) == IF t = table THEN gone ELSE {}
        User == of("User")
        Workspace == of("Workspace")
        WorkspaceMember ==
            of("WorkspaceMember") \cup
            {i \in DOMAIN d.WorkspaceMember :
                \/ d.WorkspaceMember[i].workspaceId \in Workspace
                \/ d.WorkspaceMember[i].userId \in User}
        Project ==
            of("Project") \cup
            {i \in DOMAIN d.Project : d.Project[i].workspaceId \in Workspace}
        Task ==
            of("Task") \cup
            {i \in DOMAIN d.Task : d.Task[i].projectId \in Project}
        TaskTag ==
            of("TaskTag") \cup
            {i \in DOMAIN d.TaskTag : d.TaskTag[i].taskId \in Task}
        Sprint ==
            of("Sprint") \cup
            {i \in DOMAIN d.Sprint : d.Sprint[i].projectId \in Project}
        Milestone ==
            of("Milestone") \cup
            {i \in DOMAIN d.Milestone : d.Milestone[i].projectId \in Project}
        MilestoneDependency ==
            of("MilestoneDependency") \cup
            {i \in DOMAIN d.MilestoneDependency :
                \/ d.MilestoneDependency[i].milestoneId \in Milestone
                \/ d.MilestoneDependency[i].dependsOnId \in Milestone}
    IN [User |-> User, Workspace |-> Workspace,
        WorkspaceMember |-> WorkspaceMember, Project |-> Project,
        Task |-> Task, TaskTag |-> TaskTag, Sprint |-> Sprint,
        Milestone |-> Milestone, MilestoneDependency |-> MilestoneDependency]

\* the required relations without onDelete (Restrict): a User that created
\* a Task or owns a Sprint or a Milestone cannot be deleted
Restricted(d, r) ==
    \/ \E i \in DOMAIN d.Task : d.Task[i].creatorId \in r.User
    \/ \E i \in DOMAIN d.Sprint : d.Sprint[i].ownerId \in r.User
    \/ \E i \in DOMAIN d.Milestone : d.Milestone[i].ownerId \in r.User

\* mutation of AfterDelete: deleting a Project leaves its Tasks behind
AfterDeleteKeepTasks(d, r) ==
    [User |-> d.User \ r.User,
     Workspace |-> d.Workspace \ r.Workspace,
     WorkspaceMember |-> Without(d.WorkspaceMember, r.WorkspaceMember),
     Project |-> Without(d.Project, r.Project),
     Task |-> d.Task,
     TaskTag |-> d.TaskTag,
     Sprint |-> Without(d.Sprint, r.Sprint),
     Milestone |-> Without(d.Milestone, r.Milestone),
     MilestoneDependency |->
         Without(d.MilestoneDependency, r.MilestoneDependency)]

\* the tables without the removed rows; the optional relation Task.sprint has
\* no onDelete (SetNull): a remaining Task of a removed Sprint loses its sprintId
AfterDelete(d, r) ==
    [User |-> d.User \ r.User,
     Workspace |-> d.Workspace \ r.Workspace,
     WorkspaceMember |-> Without(d.WorkspaceMember, r.WorkspaceMember),
     Project |-> Without(d.Project, r.Project),
     Task |-> [i \in DOMAIN d.Task \ r.Task |->
                  IF d.Task[i].sprintId \in r.Sprint
                  THEN [d.Task[i] EXCEPT !.sprintId = NullId]
                  ELSE d.Task[i]],
     TaskTag |-> Without(d.TaskTag, r.TaskTag),
     Sprint |-> Without(d.Sprint, r.Sprint),
     Milestone |-> Without(d.Milestone, r.Milestone),
     MilestoneDependency |->
         Without(d.MilestoneDependency, r.MilestoneDependency)]

\* DELETE of one row
Delete(table) ==
    \E id \in Ids(db, table) :
        LET r == Removed(db, table, {id})
        IN IF Restricted(db, r)
           THEN /\ db' = db
                /\ dbLast' = DbEvent("delete", table, id, <<>>, FALSE, db)
           ELSE /\ db' = AfterDelete(db, r)
                /\ dbLast' = DbEvent("delete", table, id, <<>>, TRUE, db)

DeleteUser ==
    /\ Delete("User")
    /\ DbOnly

DeleteWorkspace ==
    /\ Delete("Workspace")
    /\ DbOnly

DeleteWorkspaceMember ==
    /\ Delete("WorkspaceMember")
    /\ DbOnly

DeleteProject ==
    /\ Delete("Project")
    /\ DbOnly

DeleteTask ==
    /\ Delete("Task")
    /\ DbOnly

DeleteTaskTag ==
    /\ Delete("TaskTag")
    /\ DbOnly

DeleteSprint ==
    /\ Delete("Sprint")
    /\ DbOnly

DeleteMilestone ==
    /\ Delete("Milestone")
    /\ DbOnly

DeleteMilestoneDependency ==
    /\ Delete("MilestoneDependency")
    /\ DbOnly

\* the tables before any statement
DbInit ==
    /\ db = EmptyDb
    /\ dbLast = DbEvent("none", "", "", <<>>, TRUE, EmptyDb)

\* the components before any of their steps, for the specifications that
\* do not run them
PiQuiet ==
    /\ PiInit
    /\ projectId = Undefined

SfQuiet ==
    /\ SfInit
    /\ workspaceName = ""
    /\ hasOnSprintCreated = FALSE

(***************************************************************************)
(* Specifications.                                                         *)
(***************************************************************************)
Init == PiInit /\ SfQuiet /\ DbInit

Next ==
    \/ Mount
    \/ ProjectIdChanged
    \/ GetTokenChanged
    \/ TokenResolved
    \/ TokenRejected
    \/ GetSucceeded
    \/ GetFailedStatus
    \/ GetFailedNetwork

Spec == Init /\ [][Next]_vars

SprintInit == SfInit /\ PiQuiet /\ DbInit

SprintNext ==
    \/ ParentOpens
    \/ ParentCloses
    \/ FetchProjectsSucceeded
    \/ FetchProjectsFailed
    \/ Dismiss
    \/ SetName
    \/ SetGoal
    \/ SetSelectedProjectId
    \/ HandleStartDateChange
    \/ HandleEndDateChange
    \/ HandleSubmit
    \/ SubmitTokenResolved
    \/ SubmitTokenRejected
    \/ PostFailed
    \/ PostSucceeded

SprintSpec == SprintInit /\ [][SprintNext]_vars

SchemaInit == DbInit /\ PiQuiet /\ SfQuiet

SchemaNext ==
    \/ InsertUser
    \/ InsertWorkspace
    \/ InsertWorkspaceMember
    \/ InsertProject
    \/ InsertTask
    \/ InsertTaskTag
    \/ InsertSprint
    \/ InsertMilestone
    \/ InsertMilestoneDependency
    \/ DeleteUser
    \/ DeleteWorkspace
    \/ DeleteWorkspaceMember
    \/ DeleteProject
    \/ DeleteTask
    \/ DeleteTaskTag
    \/ DeleteSprint
    \/ DeleteMilestone
    \/ DeleteMilestoneDependency

SchemaSpec == SchemaInit /\ [][SchemaNext]_vars

(***************************************************************************)
(* Properties of ProjectInfo (checked under Spec).                         *)
(***************************************************************************)
Failed404 ==
    /\ piLast.op = "failedStatus"
    /\ piLast.resp.status = 404

\* C1: once a project fetch that failed with a 404 response has settled and
\* no other fetch is in flight, error is exactly "Project not found",
\* project is null, loading is false and the text shown is "Project not found".
C1_NotFound ==
    (Failed404 /\ fetches = {}) =>
        /\ error = Str("Project not found")
        /\ project = Null
        /\ loading = FALSE
        /\ ShownText = "Project not found"

C1_Witness ==
    /\ Failed404
    /\ fetches = {}
    /\ Truthy(piLast.pid)
    /\ ShownText = "Project not found"

\* the messages of the form "Error: <status> - <statusText>"
FormattedMessages ==
    {FormatStatus(st, txt) : st \in ErrorStatuses \cup {0},
                             txt \in StatusTexts \cup {"Network Error"}}

FailedOtherStatus ==
    /\ piLast.op = "failedStatus"
    /\ piLast.resp.status # 404

\* C2 as stated: after a fetch failed with a network error or with an error
\* status other than 404, the text shown is "Error: <status> - <statusText>".
C2_Original ==
    /\ FailedOtherStatus =>
           ShownText = FormatStatus(piLast.resp.status, piLast.resp.statusText)
    /\ piLast.op = "failedNetwork" => ShownText \in FormattedMessages

\* C2 (amended): after a fetch failed with a response of an error status
\* other than 404 the text shown is "Error: <status> - <statusText>" of that
\* response; after a fetch failed without a response (network error) the
\* text shown is "Failed to load project information".
C2_StatusMessage ==
    /\ FailedOtherStatus =>
        /\ error = Str(FormatStatus(piLast.resp.status, piLast.resp.statusText))
        /\ ShownText = "Error: " \o ToString(piLast.resp.status) \o " - "
                            \o piLast.resp.statusText
    /\ piLast.op = "failedNetwork" =>
        /\ ShownText = "Failed to load project information"
        /\ ShownText \notin FormattedMessages

C2_Witness ==
    /\ FailedOtherStatus
    /\ piLast.resp.status = 500
    /\ piLast.resp.statusText = "Internal Server Error"
    /\ ShownText = "Error: 500 - Internal Server Error"

\* C3: after a successful fetch the stored project has the response's status
\* when that is present and non-empty and "active" otherwise, the response's
\* progress when that is present and non-zero and 0 otherwise, every other
\* response field unchanged; error is null and loading is false.
C3_Defaults ==
    piLast.op = "succeeded" =>
        LET d == piLast.data.o
            HasStatus == /\ "status" \in DOMAIN d
                         /\ d["status"] # Null
                         /\ d["status"] # Str("")
            HasProgress == /\ "progress" \in DOMAIN d
                           /\ d["progress"] # Null
                           /\ d["progress"] # Num(0)
        IN /\ project.t = "object"
           /\ DOMAIN project.o = DOMAIN d \cup {"status", "progress"}
           /\ project.o["status"] = IF HasStatus THEN d["status"] ELSE Str("active")
           /\ project.o["progress"] = IF HasProgress THEN d["progress"] ELSE Num(0)
           /\ \A k \in DOMAIN d \ {"status", "progress"} : project.o[k] = d[k]
           /\ error = Null
           /\ loading = FALSE

\* a response without status and with progress 0 has been stored
C3_Witness ==
    /\ piLast.op = "succeeded"
    /\ "status" \notin DOMAIN piLast.data.o
    /\ "deadline" \in DOMAIN piLast.data.o
    /\ Get(piLast.data.o, "progress") = Num(0)
    /\ project.o["status"] = Str("active")
    /\ project.o["progress"] = Num(0)

(***************************************************************************)
(* Properties of SprintFormModal (checked under SprintSpec).               *)
(***************************************************************************)
CallCount(c) == Cardinality({i \in DOMAIN calls : calls[i] = c})

InFlightPosts == {sb \in submits : sb.pc = "post"}
AwaitingToken == {sb \in submits : sb.pc = "token"}

\* the error text the server supplied with a rejection, "" if none
ServerText(err) ==
    IF /\ "response" \in DOMAIN err
       /\ "data" \in DOMAIN err["response"].o
       /\ "error" \in DOMAIN err["response"].o["data"].o
    THEN err["response"].o["data"].o["error"].s
    ELSE ""

\* C6: when the sprint-creation POST fails, error is the server-supplied
\* error text if there is one and "Failed to create sprint" otherwise;
\* onClose and onSprintCreated are not called for that submit and the
\* entered form fields are left unchanged.
C6_PostFailure ==
    sfLast.op = "postFailed" =>
        /\ sprintError = IF ServerText(sfLast.err) # ""
                         THEN ServerText(sfLast.err)
                         ELSE "Failed to create sprint"
        /\ sfLast.calls = <<>>
        /\ CallCount(OnCloseCall("submit")) = counts.succeeded
        /\ CallCount(OnSprintCreatedCall) =
               IF hasOnSprintCreated THEN counts.succeeded ELSE 0
        /\ Fields = sfLast.fields

\* a POST failed with a server text while the form was filled in
C6_Witness ==
    /\ sfLast.op = "postFailed"
    /\ ServerText(sfLast.err) = "Sprint name already exists"
    /\ sprintError = "Sprint name already exists"
    /\ name = "Sprint 1"
    /\ startDate = "2025-03-09"
    /\ calls = <<>>

\* C8 as stated: each accepted submit issues exactly one POST, a failed POST
\* is never re-issued without a new submit, and at most one POST is in flight.
C8_Original ==
    /\ counts.posts = counts.accepted - Cardinality(AwaitingToken)
    /\ counts.posts = Cardinality(InFlightPosts) + counts.failed + counts.succeeded
    /\ Cardinality(InFlightPosts) <= 1

\* C8 (amended): each accepted submit issues at most one POST, exactly one
\* when its getToken resolves and none when its getToken rejects; a failed
\* POST is never re-issued without a new submit; at most one POST (and at
\* most one submit) is in flight at any time.
C8_SingleShot ==
    /\ counts.posts =
           counts.accepted - Cardinality(AwaitingToken) - counts.tokenRejected
    /\ counts.posts = Cardinality(InFlightPosts) + counts.failed + counts.succeeded
    /\ sfLast.op \in {"postFailed", "tokenRejected"} => submits = {}
    /\ Cardinality(submits) <= 1
    /\ isLoading <=> submits # {}

\* a second submit has issued its POST after the first POST failed
C8_Witness ==
    /\ counts.failed = 1
    /\ counts.accepted = 2
    /\ counts.posts = 2
    /\ Cardinality(InFlightPosts) = 1

\* C9: handleSubmit issues no POST unless selectedProjectId and name are both
\* non-empty; with an empty selectedProjectId error becomes "Please select a
\* project" (also when name is empty), with a project but an empty name
\* "Sprint name is required"; in both cases isLoading stays false and no
\* callback is called.
C9_Validation ==
    /\ sfLast.op = "accepted" => (selectedProjectId # "" /\ name # "")
    /\ \A sb \in submits :
        sb.body.projectId # Str("") /\ sb.body.name # Str("")
    /\ sfLast.op = "rejected" =>
        /\ selectedProjectId = "" \/ name = ""
        /\ selectedProjectId = "" => sprintError = "Please select a project"
        /\ (selectedProjectId # "" /\ name = "") =>
               sprintError = "Sprint name is required"
        /\ isLoading = FALSE
        /\ submits = {}
        /\ sfLast.calls = <<>>

\* a submit with neither project nor name has been rejected
C9_Witness ==
    /\ sfLast.op = "rejected"
    /\ selectedProjectId = ""
    /\ name = ""
    /\ sprintError = "Please select a project"

SuccessStep ==
    sfLast.op = "postSucceeded" =>
        /\ sfLast.calls = IF hasOnSprintCreated
                          THEN <<OnCloseCall("submit"), OnSprintCreatedCall>>
                          ELSE <<OnCloseCall("submit")>>
        /\ sprintError = ""

\* C10 as stated: when the POST succeeds onClose is called once and then
\* onSprintCreated (when provided) once, error stays empty, and neither
\* callback is ever called before the POST has succeeded.
C10_Original ==
    /\ SuccessStep
    /\ calls # <<>> => counts.succeeded > 0

\* C10 (amended): when the POST succeeds handleSubmit calls onClose once and
\* then onSprintCreated (when provided) once, in that order, and error stays
\* empty; onSprintCreated is never called, and handleSubmit never calls
\* onClose, before the POST has succeeded; a click on the backdrop or on the
\* X button calls onClose whatever the state of the POST.
C10_Callbacks ==
    /\ SuccessStep
    /\ CallCount(OnCloseCall("submit")) = counts.succeeded
    /\ CallCount(OnSprintCreatedCall) =
           IF hasOnSprintCreated THEN counts.succeeded ELSE 0
    /\ \A i \in DOMAIN calls :
           calls[i] = OnSprintCreatedCall =>
               i > 1 /\ calls[i - 1] = OnCloseCall("submit")

\* a POST has succeeded and both callbacks have been called
C10_Witness ==
    /\ sfLast.op = "postSucceeded"
    /\ hasOnSprintCreated
    /\ calls = <<OnCloseCall("submit"), OnSprintCreatedCall>>
    /\ sprintError = ""

(***************************************************************************)
(* Properties of the schema (checked under SchemaSpec).                    *)
(***************************************************************************)
\* no two rows of table t agree on both columns a and b
UniquePair(t, a, b) ==
    \A i, j \in DOMAIN t :
        (t[i][a] = t[j][a] /\ t[i][b] = t[j][b]) => i = j

\* some row of table t has the values of row on columns a and b
PairPresent(t, row, a, b) ==
    \E i \in DOMAIN t : t[i][a] = row[a] /\ t[i][b] = row[b]

LastInsertDuplicates ==
    /\ dbLast.op = "insert"
    /\ \/ /\ dbLast.table = "WorkspaceMember"
          /\ PairPresent(dbLast.before.WorkspaceMember, dbLast.row,
                         "workspaceId", "userId")
       \/ /\ dbLast.table = "TaskTag"
          /\ PairPresent(dbLast.before.TaskTag, dbLast.row, "taskId", "name")
       \/ /\ dbLast.table = "MilestoneDependency"
          /\ PairPresent(dbLast.before.MilestoneDependency, dbLast.row,
                         "milestoneId", "dependsOnId")

\* C4: after any sequence of insertions and deletions no two WorkspaceMember
\* rows share (workspaceId, userId), no two TaskTag rows share (taskId, name)
\* and no two MilestoneDependency rows share (milestoneId, dependsOnId); an
\* insertion that would duplicate such a pair is rejected and leaves the
\* tables unchanged.
C4_UniquePairs ==
    /\ UniquePair(db.WorkspaceMember, "workspaceId", "userId")
    /\ UniquePair(db.TaskTag, "taskId", "name")
    /\ UniquePair(db.MilestoneDependency, "milestoneId", "dependsOnId")
    /\ LastInsertDuplicates => (~dbLast.ok /\ db = dbLast.before)

\* a second membership of the same user in the same workspace was rejected
\* while that user is a member of two workspaces
C4_Witness ==
    /\ LastInsertDuplicates
    /\ dbLast.table = "WorkspaceMember"
    /\ ~dbLast.ok
    /\ Cardinality(DOMAIN db.WorkspaceMember) = 2

LastDeleteCascades ==
    /\ dbLast.op = "delete"
    /\ dbLast.table \in {"Workspace", "Project"}
    /\ dbLast.ok

\* the projects the last delete removed, and the workspace they belonged to
GoneProjects ==
    IF dbLast.table = "Workspace"
    THEN {p \in DOMAIN dbLast.before.Project :
              dbLast.before.Project[p].workspaceId = dbLast.id}
    ELSE {dbLast.id}

GoneWorkspace ==
    IF dbLast.table = "Workspace" THEN dbLast.id
    ELSE dbLast.before.Project[dbLast.id].workspaceId

GoneSprints ==
    {i \in DOMAIN dbLast.before.Sprint :
        dbLast.before.Sprint[i].projectId \in GoneProjects}

\* the rows of table t (of the state before) that belong to another workspace
Elsewhere(t) ==
    {i \in DOMAIN t :
        dbLast.before.Project[t[i].projectId].workspaceId # GoneWorkspace}

\* every Project of a deleted Workspace and every Task, Sprint and Milestone
\* of a deleted Project is gone, and no row references a missing parent
CascadeComplete ==
    /\ dbLast.table = "Workspace" => dbLast.id \notin db.Workspace
    /\ GoneProjects \cap DOMAIN db.Project = {}
    /\ \A i \in DOMAIN db.Project : db.Project[i].workspaceId \in db.Workspace
    /\ \A i \in DOMAIN db.Task :
        /\ db.Task[i].projectId \in DOMAIN db.Project
        /\ db.Task[i].projectId \notin GoneProjects
    /\ \A i \in DOMAIN db.Sprint :
        /\ db.Sprint[i].projectId \in DOMAIN db.Project
        /\ db.Sprint[i].projectId \notin GoneProjects
    /\ \A i \in DOMAIN db.Milestone :
        /\ db.Milestone[i].projectId \in DOMAIN db.Project
        /\ db.Milestone[i].projectId \notin GoneProjects

Kept(now, before, i) == i \in DOMAIN now /\ now[i] = before[i]

C7_AcceptsAnyEdge ==
    (dbLast.op = "insert" /\ dbLast.table = "MilestoneDependency") =>
        /\ dbLast.ok <=>
            /\ dbLast.row.milestoneId \in DOMAIN dbLast.before.Milestone
            /\ dbLast.row.dependsOnId \in DOMAIN dbLast.before.Milestone
            /\ ~PairPresent(dbLast.before.MilestoneDependency, dbLast.row,
                            "milestoneId", "dependsOnId")
        /\ dbLast.ok =>
            /\ dbLast.id \in DOMAIN db.MilestoneDependency
            /\ db.MilestoneDependency[dbLast.id] = dbLast.row

DependsOn(a, b) ==
    \E i \in DOMAIN db.MilestoneDependency :
        /\ db.MilestoneDependency[i].milestoneId = a
        /\ db.MilestoneDependency[i].dependsOnId = b

\* the last insert closed a cycle between two milestones, next to a
\* milestone that depends on itself or not
C7_Witness ==
    /\ dbLast.op = "insert"
    /\ dbLast.table = "MilestoneDependency"
    /\ dbLast.ok
    /\ dbLast.row.milestoneId # dbLast.row.dependsOnId
    /\ DependsOn(dbLast.row.milestoneId, dbLast.row.dependsOnId)
    /\ DependsOn(dbLast.row.dependsOnId, dbLast.row.milestoneId)

\* ---- C11: isLoading over one submit ----

\* the steps that end a submit: the POST settled, or getToken() rejected
PostSettled ==
    {"postSucceeded", "postFailed"}

SubmitEnded ==
    PostSettled \cup {"tokenRejected"}

\* isLoading in each state: true right after an accepted submit, true
\* exactly while a submit is in flight, false right after a submit ended
LoadingStates ==
    /\ sfLast.op = "accepted" => isLoading
    /\ isLoading <=> submits # {}
    /\ sfLast.op \in SubmitEnded => ~isLoading

\* isLoading turns true only in a submit that passed validation
LoadingRises ==
    ~isLoading /\ isLoading' => sfLast'.op = "accepted"

\* C11 as stated: isLoading is true after a submit that passed validation,
\* stays true while the submit is in flight, turns false only in the step in
\* which the POST settles, and is false after the POST settled
C11_Original ==
    /\ []LoadingStates
    /\ [][LoadingRises]_vars
    /\ [][isLoading /\ ~isLoading' => sfLast'.op \in PostSettled]_vars

\* C11: isLoading is true after a submit that passed validation, stays true
\* while the submit is in flight, turns false only in the step in which the
\* POST settles or getToken() rejects, and is false after either
C11_Loading ==
    /\ []LoadingStates
    /\ [][LoadingRises]_vars
    /\ [][isLoading /\ ~isLoading' => sfLast'.op \in SubmitEnded]_vars

\* a second accepted submit has had its POST fail after the first one
\* succeeded: isLoading is false again
C11_Witness ==
    /\ sfLast.op = "postFailed"
    /\ counts.accepted = 2
    /\ counts.succeeded = 1
    /\ counts.failed = 1
    /\ ~isLoading

\* ---- C12: fetchProjectInfo without a project ----

\* projectId null, undefined or empty
EmptyIds ==
    {Null, Undefined, Str("")}

\* after each run of fetchProjectInfo: a run with an empty projectId took the
\* early return and left the message and loading = false, a run that went
\* on had a projectId, and no fetch in flight is one for an empty projectId
NoProjectStates ==
    /\ piLast.op = "noProject" =>
          /\ piLast.pid \in EmptyIds
          /\ error = Str("Select a project or create a new one")
          /\ loading = FALSE
    /\ piLast.op = "start" => piLast.pid \notin EmptyIds
    /\ \A f \in fetches : f.pid \notin EmptyIds

\* a run with an empty projectId starts no fetch and issues no request
NoProjectStep ==
    piLast'.op = "noProject" => fetches' = fetches /\ nextFetch' = nextFetch

\* C12: when fetchProjectInfo runs with projectId null, undefined or empty,
\* no HTTP request is issued, error is "Select a project or create a new
\* one" and loading is false
C12_NoProject ==
    /\ []NoProjectStates
    /\ [][NoProjectStep]_vars

\* projectId became empty while the fetch for the previous project was
\* still waiting for its response
C12_Witness ==
    /\ piLast.op = "noProject"
    /\ piLast.pid = Str("")
    /\ projectId = Str("")
    /\ error = Str("Select a project or create a new one")
    /\ ~loading
    /\ \E f \in fetches : f.pc = "get"

====
